---- MODULE Spec2Model ----
(***************************************************************************)
(* The budget-governed transaction ledger of the F.A.M. (Family Appointed   *)
(* Moderator) bank account: assignment-1-the-f-a-m-lizhiquan.               *)
(*                                                                         *)
(* Amounts are whole currency units.  Budget.exceeded_ratio is the quotient *)
(* amount_spent / total_amount; the model keeps it as the pair              *)
(* <<amount_spent, total_amount>> and decides "ratio > n/d" by the          *)
(* cross-multiplication amount_spent * d > n * total_amount, which is what  *)
(* the floating-point comparison yields for whole amounts of this size.     *)
(* A transaction is the pair (amount, budget_category); its timestamp and   *)
(* shop name take no part in any decision of the ledger.                    *)
(*                                                                         *)
(* The module also holds the earlier ledger of                              *)
(* lab-3-getting-to-know-the-f-a-m-lizhiquan, the classes used without the  *)
(* driver, the menu's listing, and record_transaction run by two threads,   *)
(* each as a specification of its own over the same variables.              *)
(***************************************************************************)
EXTENDS Integers, Sequences, FiniteSets, TLC

\* ---- bounds of the model ------------------------------------------------
MaxAmount == 3      \* transaction amounts are 1..MaxAmount
MaxTx == 3          \* at most MaxTx transactions are accepted into the history
NumCities == 2      \* the cities in the city database of lab-11

\* ---- budget.py ----------------------------------------------------------
BudgetCategory ==
    {"GAMES_AND_ENTERTAINMENT", "CLOTHING_AND_ACCESSORIES", "EATING_OUT",
     "MISCELLANEOUS"}

UserType == {"ANGEL", "TROUBLEMAKER", "REBEL"}

\* Budget.__init__: nothing spent, not locked.
Budget(category, total_amount) ==
    [category |-> category, total_amount |-> total_amount,
     amount_spent |-> 0, locked |-> FALSE]

\* What the division raises when total_amount is 0.
ZeroDivisionError == <<"ZeroDivisionError">>

\* Budget.exceeded_ratio, as the pair numerator / denominator.
exceeded_ratio(budget) ==
    IF budget.total_amount = 0
    THEN ZeroDivisionError
    ELSE <<budget.amount_spent, budget.total_amount>>

\* ratio > n/d for a ratio <<p, q>> with q > 0 and d > 0.
RatioGT(ratio, n, d) == ratio[1] * d > n * ratio[2]

\* A slip in Budget.lock: the flag is flipped, not set.
lock_toggle(budget) == [budget EXCEPT !.locked = ~@]

\* Budget.lock
lock(budget) == [budget EXCEPT !.locked = TRUE]

\* BudgetManager.__init__: no budget yet.
BudgetManager == [c \in {} |-> Budget(c, 0)]

\* BudgetManager.add_budget: the dictionary entry of the budget's category is
\* set, whatever was there.
add_budget(budgets, budget) ==
    [c \in DOMAIN budgets \cup {budget.category} |->
        IF c = budget.category THEN budget ELSE budgets[c]]

\* What dict.get hands back for a missing key.
None == [category |-> "None"]

\* BudgetManager.get_budget
get_budget(budgets, category) ==
    IF category \in DOMAIN budgets THEN budgets[category] ELSE None

\* BudgetManager.no_locked_budgets
no_locked_budgets(budgets) ==
    Cardinality({c \in DOMAIN budgets : budgets[c].locked})

\* ---- transaction.py -----------------------------------------------------
Transaction(amount, budget_category) ==
    [amount |-> amount, budget_category |-> budget_category]

\* ---- bank_account.py ----------------------------------------------------
\* The escalation outputs of a call, in the order the code produces them.
Warn(percent) == [action |-> "Warn", percent |-> percent]
Notify == [action |-> "Notify", percent |-> 0]
LockBudget == [action |-> "LockBudget", percent |-> 0]
Review == [action |-> "Review", percent |-> 0]
LockAccount == [action |-> "LockAccount", percent |-> 0]

\* A slip in get_transactions_by_budget: the category filter is left out.
get_transactions_unfiltered(transactions, category) == transactions

\* BankAccount.get_transactions_by_budget
get_transactions_by_budget(transactions, category) ==
    SelectSeq(transactions, LAMBDA t : t.budget_category = category)

\* An account: the fields of BankAccount that the ledger reads and writes.
Account(user_type, bank_balance, budgets) ==
    [user_type |-> user_type, bank_balance |-> bank_balance,
     transactions |-> <<>>, budgets |-> budgets, locked |-> FALSE]

\* A slip in the review: the transactions are collected as they were before
\* the newly recorded one was appended.
Escalation_before_append(acct, actions, category) ==
    [acct |-> acct, actions |-> actions,
     review |-> IF \E i \in 1..Len(actions) : actions[i] = Review
                THEN LET transactions ==
                             get_transactions_by_budget(acct.transactions,
                                                        category)
                     IN  SubSeq(transactions, 1, Len(transactions) - 1)
                ELSE <<>>]

\* The outcome of _warn_and_lock_if_needed: the account as it leaves it, the
\* outputs it printed and the transactions it showed for review.
Escalation(acct, actions, category) ==
    [acct |-> acct, actions |-> actions,
     review |-> IF \E i \in 1..Len(actions) : actions[i] = Review
                THEN get_transactions_by_budget(acct.transactions, category)
                ELSE <<>>]

\* BankAccount._lock_budget
lock_budget(acct, category) ==
    [acct EXCEPT !.budgets[category] = lock(@)]

\* A slip in the Angel hook: the 90% warning uses >= for >.
Angel_warn_at_ninety(acct, transaction) ==
    LET category == transaction.budget_category
        budget == get_budget(acct.budgets, category)
        ratio == exceeded_ratio(budget)
    IN  IF RatioGT(ratio, 1, 1)
        THEN Escalation(acct, <<Notify, Review>>, category)
        ELSE IF ratio[1] * 10 >= 9 * ratio[2]
        THEN Escalation(acct, <<Warn(90), Review>>, category)
        ELSE Escalation(acct, <<>>, category)

\* A slip in the Angel hook: notifying that a budget is exceeded also locks
\* it.
Angel_notify_locks(acct, transaction) ==
    LET category == transaction.budget_category
        budget == get_budget(acct.budgets, category)
        ratio == exceeded_ratio(budget)
    IN  IF RatioGT(ratio, 1, 1)
        THEN Escalation(lock_budget(acct, category), <<Notify, Review>>,
                        category)
        ELSE IF RatioGT(ratio, 9, 10)
        THEN Escalation(acct, <<Warn(90), Review>>, category)
        ELSE Escalation(acct, <<>>, category)

\* AngelBankAccount._warn_and_lock_if_needed
Angel_warn_and_lock_if_needed(acct, transaction) ==
    LET category == transaction.budget_category
        budget == get_budget(acct.budgets, category)
        ratio == exceeded_ratio(budget)
    IN  IF RatioGT(ratio, 1, 1)
        THEN Escalation(acct, <<Notify, Review>>, category)
        ELSE IF RatioGT(ratio, 9, 10)
        THEN Escalation(acct, <<Warn(90), Review>>, category)
        ELSE Escalation(acct, <<>>, category)

\* A slip in the Troublemaker hook: the lock threshold uses >= for >.
Troublemaker_lock_at_threshold(acct, transaction) ==
    LET category == transaction.budget_category
        budget == get_budget(acct.budgets, category)
        ratio == exceeded_ratio(budget)
    IN  IF ratio[1] * 5 >= 6 * ratio[2]
        THEN Escalation(lock_budget(acct, category), <<LockBudget, Review>>,
                        category)
        ELSE IF RatioGT(ratio, 1, 1)
        THEN Escalation(acct, <<Notify, Review>>, category)
        ELSE IF RatioGT(ratio, 3, 4)
        THEN Escalation(acct, <<Warn(75), Review>>, category)
        ELSE Escalation(acct, <<>>, category)

\* A slip in the Troublemaker hook: the Rebel's account lock is copied in.
Troublemaker_locks_account(acct, transaction) ==
    LET category == transaction.budget_category
        budget == get_budget(acct.budgets, category)
        ratio == exceeded_ratio(budget)
        locked_budget == lock_budget(acct, category)
    IN  IF RatioGT(ratio, 6, 5)
        THEN IF no_locked_budgets(locked_budget.budgets) >= 2
             THEN Escalation([locked_budget EXCEPT !.locked = TRUE],
                             <<LockBudget, Review, LockAccount>>, category)
             ELSE Escalation(locked_budget, <<LockBudget, Review>>, category)
        ELSE IF RatioGT(ratio, 1, 1)
        THEN Escalation(acct, <<Notify, Review>>, category)
        ELSE IF RatioGT(ratio, 3, 4)
        THEN Escalation(acct, <<Warn(75), Review>>, category)
        ELSE Escalation(acct, <<>>, category)

\* A slip in the Troublemaker hook: the branches are tried in the order
\* > 1, > 1.2, > 0.75, so the lock is never reached.
Troublemaker_notify_first(acct, transaction) ==
    LET category == transaction.budget_category
        budget == get_budget(acct.budgets, category)
        ratio == exceeded_ratio(budget)
    IN  IF RatioGT(ratio, 1, 1)
        THEN Escalation(acct, <<Notify, Review>>, category)
        ELSE IF RatioGT(ratio, 6, 5)
        THEN Escalation(lock_budget(acct, category), <<LockBudget, Review>>,
                        category)
        ELSE IF RatioGT(ratio, 3, 4)
        THEN Escalation(acct, <<Warn(75), Review>>, category)
        ELSE Escalation(acct, <<>>, category)

\* TroublemakerBankAccount._warn_and_lock_if_needed
Troublemaker_warn_and_lock_if_needed(acct, transaction) ==
    LET category == transaction.budget_category
        budget == get_budget(acct.budgets, category)
        ratio == exceeded_ratio(budget)
    IN  IF RatioGT(ratio, 6, 5)
        THEN Escalation(lock_budget(acct, category), <<LockBudget, Review>>,
                        category)
        ELSE IF RatioGT(ratio, 1, 1)
        THEN Escalation(acct, <<Notify, Review>>, category)
        ELSE IF RatioGT(ratio, 3, 4)
        THEN Escalation(acct, <<Warn(75), Review>>, category)
        ELSE Escalation(acct, <<>>, category)

\* A slip in the Rebel hook: the lock threshold uses >= for >.
Rebel_lock_at_total(acct, transaction) ==
    LET category == transaction.budget_category
        budget == get_budget(acct.budgets, category)
        ratio == exceeded_ratio(budget)
        locked_budget == lock_budget(acct, category)
    IN  IF ratio[1] >= ratio[2]
        THEN IF no_locked_budgets(locked_budget.budgets) >= 2
             THEN Escalation([locked_budget EXCEPT !.locked = TRUE],
                             <<Notify, LockBudget, Review, LockAccount>>,
                             category)
             ELSE Escalation(locked_budget, <<Notify, LockBudget, Review>>,
                             category)
        ELSE IF RatioGT(ratio, 1, 2)
        THEN Escalation(acct, <<Warn(50), Review>>, category)
        ELSE Escalation(acct, <<>>, category)

\* A slip in the Rebel hook: the account is locked only past two locked
\* budgets (> 2 for >= 2).
Rebel_lock_account_past_two(acct, transaction) ==
    LET category == transaction.budget_category
        budget == get_budget(acct.budgets, category)
        ratio == exceeded_ratio(budget)
        locked_budget == lock_budget(acct, category)
    IN  IF RatioGT(ratio, 1, 1)
        THEN IF no_locked_budgets(locked_budget.budgets) > 2
             THEN Escalation([locked_budget EXCEPT !.locked = TRUE],
                             <<Notify, LockBudget, Review, LockAccount>>,
                             category)
             ELSE Escalation(locked_budget, <<Notify, LockBudget, Review>>,
                             category)
        ELSE IF RatioGT(ratio, 1, 2)
        THEN Escalation(acct, <<Warn(50), Review>>, category)
        ELSE Escalation(acct, <<>>, category)

\* A slip in the Rebel hook: the account is locked with the first locked
\* budget (>= 1 for >= 2).
Rebel_lock_account_at_first(acct, transaction) ==
    LET category == transaction.budget_category
        budget == get_budget(acct.budgets, category)
        ratio == exceeded_ratio(budget)
        locked_budget == lock_budget(acct, category)
    IN  IF RatioGT(ratio, 1, 1)
        THEN IF no_locked_budgets(locked_budget.budgets) >= 1
             THEN Escalation([locked_budget EXCEPT !.locked = TRUE],
                             <<Notify, LockBudget, Review, LockAccount>>,
                             category)
             ELSE Escalation(locked_budget, <<Notify, LockBudget, Review>>,
                             category)
        ELSE IF RatioGT(ratio, 1, 2)
        THEN Escalation(acct, <<Warn(50), Review>>, category)
        ELSE Escalation(acct, <<>>, category)

\* A slip in the Rebel hook: the account is never locked.
Rebel_never_locks_account(acct, transaction) ==
    LET category == transaction.budget_category
        budget == get_budget(acct.budgets, category)
        ratio == exceeded_ratio(budget)
    IN  IF RatioGT(ratio, 1, 1)
        THEN Escalation(lock_budget(acct, category),
                        <<Notify, LockBudget, Review>>, category)
        ELSE IF RatioGT(ratio, 1, 2)
        THEN Escalation(acct, <<Warn(50), Review>>, category)
        ELSE Escalation(acct, <<>>, category)

\* A slip in the Rebel hook: locking the account locks every budget.
Rebel_locks_all_budgets(acct, transaction) ==
    LET category == transaction.budget_category
        budget == get_budget(acct.budgets, category)
        ratio == exceeded_ratio(budget)
        locked_budget == lock_budget(acct, category)
    IN  IF RatioGT(ratio, 1, 1)
        THEN IF no_locked_budgets(locked_budget.budgets) >= 2
             THEN Escalation([locked_budget EXCEPT
                                 !.locked = TRUE,
                                 !.budgets = [c \in DOMAIN @ |-> lock(@[c])]],
                             <<Notify, LockBudget, Review, LockAccount>>,
                             category)
             ELSE Escalation(locked_budget, <<Notify, LockBudget, Review>>,
                             category)
        ELSE IF RatioGT(ratio, 1, 2)
        THEN Escalation(acct, <<Warn(50), Review>>, category)
        ELSE Escalation(acct, <<>>, category)

\* RebelBankAccount._warn_and_lock_if_needed
Rebel_warn_and_lock_if_needed(acct, transaction) ==
    LET category == transaction.budget_category
        budget == get_budget(acct.budgets, category)
        ratio == exceeded_ratio(budget)
        locked_budget == lock_budget(acct, category)
    IN  IF RatioGT(ratio, 1, 1)
        THEN IF no_locked_budgets(locked_budget.budgets) >= 2
             THEN Escalation([locked_budget EXCEPT !.locked = TRUE],
                             <<Notify, LockBudget, Review, LockAccount>>,
                             category)
             ELSE Escalation(locked_budget, <<Notify, LockBudget, Review>>,
                             category)
        ELSE IF RatioGT(ratio, 1, 2)
        THEN Escalation(acct, <<Warn(50), Review>>, category)
        ELSE Escalation(acct, <<>>, category)

\* The abstract hook, dispatched on the class BankAccountCreator chose.
warn_and_lock_if_needed(acct, transaction) ==
    CASE acct.user_type = "ANGEL" ->
            Angel_warn_and_lock_if_needed(acct, transaction)
      [] acct.user_type = "TROUBLEMAKER" ->
            Troublemaker_warn_and_lock_if_needed(acct, transaction)
      [] acct.user_type = "REBEL" ->
            Rebel_warn_and_lock_if_needed(acct, transaction)

\* What a call of record_transaction hands back: the account after the call,
\* the bool it returns, the failure message it printed (as a kind), and the
\* escalation outputs.
Rejected(acct, kind) ==
    [accepted |-> FALSE, result |-> kind, acct |-> acct, actions |-> <<>>,
     review |-> <<>>]

\* The exceptions a call of record_transaction can end with.
Exceptions == {"AttributeError", "ZeroDivisionError"}

\* A call that ends with an exception: nothing is returned, the account is as
\* the statements before the raise left it.
Raised(acct, exception) ==
    [accepted |-> FALSE, result |-> exception, acct |-> acct,
     actions |-> <<>>, review |-> <<>>]

\* A slip in the accepting path: the budget is never credited.
apply_transaction_no_credit(acct, transaction) ==
    [acct EXCEPT
        !.transactions = Append(@, transaction),
        !.bank_balance = @ - transaction.amount]

\* A slip in the accepting path: the transaction is not kept in the history.
apply_transaction_no_append(acct, transaction) ==
    [acct EXCEPT
        !.bank_balance = @ - transaction.amount,
        !.budgets[transaction.budget_category].amount_spent =
            @ + transaction.amount]

\* A slip in the accepting path: the balance is not debited.
apply_transaction_no_debit(acct, transaction) ==
    [acct EXCEPT
        !.transactions = Append(@, transaction),
        !.budgets[transaction.budget_category].amount_spent =
            @ + transaction.amount]

\* The three mutations of the accepting path, before the hook runs.
apply_transaction(acct, transaction) ==
    [acct EXCEPT
        !.transactions = Append(@, transaction),
        !.bank_balance = @ - transaction.amount,
        !.budgets[transaction.budget_category].amount_spent =
            @ + transaction.amount]

\* A slip in record_transaction: the budget lock is looked at before the
\* funds.
record_transaction_budget_first(acct, transaction) ==
    IF acct.locked
    THEN Rejected(acct, "AccountLocked")
    ELSE IF get_budget(acct.budgets, transaction.budget_category).locked
    THEN Rejected(acct, "BudgetLocked")
    ELSE IF transaction.amount > acct.bank_balance
    THEN Rejected(acct, "InsufficientFunds")
    ELSE LET e == warn_and_lock_if_needed(
                      apply_transaction(acct, transaction), transaction)
         IN  [accepted |-> TRUE, result |-> "Accepted"] @@ e

\* A slip in record_transaction: the transaction enters the history before
\* the checks.
record_transaction_append_first(acct, transaction) ==
    LET appended == [acct EXCEPT !.transactions = Append(@, transaction)]
    IN  IF acct.locked
        THEN Rejected(appended, "AccountLocked")
        ELSE IF transaction.amount > acct.bank_balance
        THEN Rejected(appended, "InsufficientFunds")
        ELSE IF get_budget(acct.budgets, transaction.budget_category).locked
        THEN Rejected(appended, "BudgetLocked")
        ELSE LET e == warn_and_lock_if_needed(
                      apply_transaction(acct, transaction), transaction)
         IN  [accepted |-> TRUE, result |-> "Accepted"] @@ e

\* A slip in record_transaction: the funds check uses >= for >.
record_transaction_ge(acct, transaction) ==
    IF acct.locked
    THEN Rejected(acct, "AccountLocked")
    ELSE IF transaction.amount >= acct.bank_balance
    THEN Rejected(acct, "InsufficientFunds")
    ELSE IF get_budget(acct.budgets, transaction.budget_category).locked
    THEN Rejected(acct, "BudgetLocked")
    ELSE LET e == warn_and_lock_if_needed(
                      apply_transaction(acct, transaction), transaction)
         IN  [accepted |-> TRUE, result |-> "Accepted"] @@ e

\* A slip in record_transaction: the balance is debited before the budget
\* lock is looked at.
record_transaction_debit_early(acct, transaction) ==
    LET debited == [acct EXCEPT !.bank_balance = @ - transaction.amount]
    IN  IF acct.locked
        THEN Rejected(acct, "AccountLocked")
        ELSE IF transaction.amount > acct.bank_balance
        THEN Rejected(acct, "InsufficientFunds")
        ELSE IF get_budget(acct.budgets, transaction.budget_category).locked
        THEN Rejected(debited, "BudgetLocked")
        ELSE LET e == warn_and_lock_if_needed(
                      apply_transaction(acct, transaction), transaction)
         IN  [accepted |-> TRUE, result |-> "Accepted"] @@ e

\* A slip in record_transaction: the account lock is not looked at.
record_transaction_no_account_check(acct, transaction) ==
    IF transaction.amount > acct.bank_balance
    THEN Rejected(acct, "InsufficientFunds")
    ELSE IF get_budget(acct.budgets, transaction.budget_category).locked
    THEN Rejected(acct, "BudgetLocked")
    ELSE LET e == warn_and_lock_if_needed(
                      apply_transaction(acct, transaction), transaction)
         IN  [accepted |-> TRUE, result |-> "Accepted"] @@ e

\* A slip in record_transaction: the funds are not looked at.
record_transaction_no_funds_check(acct, transaction) ==
    IF acct.locked
    THEN Rejected(acct, "AccountLocked")
    ELSE IF get_budget(acct.budgets, transaction.budget_category).locked
    THEN Rejected(acct, "BudgetLocked")
    ELSE LET e == warn_and_lock_if_needed(
                      apply_transaction(acct, transaction), transaction)
         IN  [accepted |-> TRUE, result |-> "Accepted"] @@ e

\* A slip in record_transaction: a transaction that takes the budget past
\* its total is refused.
record_transaction_allocation_limit(acct, transaction) ==
    LET budget == get_budget(acct.budgets, transaction.budget_category)
    IN  IF acct.locked
        THEN Rejected(acct, "AccountLocked")
        ELSE IF transaction.amount > acct.bank_balance
        THEN Rejected(acct, "InsufficientFunds")
        ELSE IF budget.locked
                  \/ budget.amount_spent + transaction.amount
                        > budget.total_amount
        THEN Rejected(acct, "BudgetLocked")
        ELSE LET e == warn_and_lock_if_needed(
                          apply_transaction(acct, transaction), transaction)
             IN  [accepted |-> TRUE, result |-> "Accepted"] @@ e

\* BankAccount.record_transaction.  Reading .locked of a budget that
\* get_budget did not find raises AttributeError; the hook's first
\* statement, budget.exceeded_ratio, raises ZeroDivisionError on a budget
\* whose total_amount is 0, after the three mutations.
record_transaction(acct, transaction) ==
    IF acct.locked
    THEN Rejected(acct, "AccountLocked")
    ELSE IF transaction.amount > acct.bank_balance
    THEN Rejected(acct, "InsufficientFunds")
    ELSE IF get_budget(acct.budgets, transaction.budget_category) = None
    THEN Raised(acct, "AttributeError")
    ELSE IF get_budget(acct.budgets, transaction.budget_category).locked
    THEN Rejected(acct, "BudgetLocked")
    ELSE LET applied == apply_transaction(acct, transaction)
         IN  IF exceeded_ratio(get_budget(applied.budgets,
                                          transaction.budget_category))
                   = ZeroDivisionError
             THEN Raised(applied, "ZeroDivisionError")
             ELSE [accepted |-> TRUE, result |-> "Accepted"]
                     @@ warn_and_lock_if_needed(applied, transaction)

\* ---- lab-3-getting-to-know-the-f-a-m-lizhiquan --------------------------
\* The earlier implementation of the same ledger.  Its budgets are keyed by
\* the category names; the model keeps the keys of BudgetCategory for them.

\* exceeded_ratio = amount_spent / total_amount - 1 compared with n/d, for a
\* budget with amount_spent >= total_amount > 0.  The comparison is the one
\* the float arithmetic makes: for whole amounts it is the exact one, except
\* at amount_spent / total_amount = 2.2, where 2.2 - 1 evaluates to
\* 1.2000000000000002, which is greater than 1.2.
Lab3_exceeded_ratio_gt(budget, n, d) ==
    \/ (budget.amount_spent - budget.total_amount) * d
          > n * budget.total_amount
    \/ /\ 5 * n = 6 * d
       /\ 5 * budget.amount_spent = 11 * budget.total_amount

\* What a lab-3 hook leaves: the account and the messages it printed (it
\* prints no transactions for review).
Lab3_Escalation(acct, actions) ==
    [acct |-> acct, actions |-> actions, review |-> <<>>]

\* lab-3 AngelBankAccount.warn_and_lock_if_needed
Lab3_Angel_warn_and_lock_if_needed(acct, transaction) ==
    LET budget == get_budget(acct.budgets, transaction.budget_category)
    IN  IF budget.amount_spent >= budget.total_amount
        THEN IF Lab3_exceeded_ratio_gt(budget, 9, 10)
             THEN Lab3_Escalation(acct, <<Warn(90)>>)
             ELSE Lab3_Escalation(acct, <<Notify>>)
        ELSE Lab3_Escalation(acct, <<>>)

\* A slip in the lab-3 Troublemaker hook: the ratio is not offset by 1.
Lab3_Troublemaker_no_offset(acct, transaction) ==
    LET category == transaction.budget_category
        budget == get_budget(acct.budgets, category)
    IN  IF budget.amount_spent >= budget.total_amount
        THEN IF RatioGT(exceeded_ratio(budget), 6, 5)
             THEN Lab3_Escalation(lock_budget(acct, category), <<LockBudget>>)
             ELSE IF RatioGT(exceeded_ratio(budget), 3, 4)
             THEN Lab3_Escalation(acct, <<Warn(75)>>)
             ELSE Lab3_Escalation(acct, <<Notify>>)
        ELSE Lab3_Escalation(acct, <<>>)

\* lab-3 TroublemakerBankAccount.warn_and_lock_if_needed
Lab3_Troublemaker_warn_and_lock_if_needed(acct, transaction) ==
    LET category == transaction.budget_category
        budget == get_budget(acct.budgets, category)
    IN  IF budget.amount_spent >= budget.total_amount
        THEN IF Lab3_exceeded_ratio_gt(budget, 6, 5)
             THEN Lab3_Escalation(lock_budget(acct, category), <<LockBudget>>)
             ELSE IF Lab3_exceeded_ratio_gt(budget, 3, 4)
             THEN Lab3_Escalation(acct, <<Warn(75)>>)
             ELSE Lab3_Escalation(acct, <<Notify>>)
        ELSE Lab3_Escalation(acct, <<>>)

\* A slip in the lab-3 Rebel hook: the budget is locked as soon as the amount
\* spent reaches the total.
Lab3_Rebel_locks_at_total(acct, transaction) ==
    LET category == transaction.budget_category
        budget == get_budget(acct.budgets, category)
        locked_budget == lock_budget(acct, category)
    IN  IF budget.amount_spent >= budget.total_amount
        THEN IF no_locked_budgets(locked_budget.budgets) >= 2
             THEN Lab3_Escalation([locked_budget EXCEPT !.locked = TRUE],
                                  <<LockBudget, LockAccount>>)
             ELSE Lab3_Escalation(locked_budget, <<LockBudget>>)
        ELSE Lab3_Escalation(acct, <<>>)

\* lab-3 RebelBankAccount.warn_and_lock_if_needed
Lab3_Rebel_warn_and_lock_if_needed(acct, transaction) ==
    LET category == transaction.budget_category
        budget == get_budget(acct.budgets, category)
        locked_budget == lock_budget(acct, category)
    IN  IF budget.amount_spent >= budget.total_amount
        THEN IF Lab3_exceeded_ratio_gt(budget, 1, 1)
             THEN IF no_locked_budgets(locked_budget.budgets) >= 2
                  THEN Lab3_Escalation([locked_budget EXCEPT !.locked = TRUE],
                                       <<LockBudget, LockAccount>>)
                  ELSE Lab3_Escalation(locked_budget, <<LockBudget>>)
             ELSE IF Lab3_exceeded_ratio_gt(budget, 1, 2)
             THEN Lab3_Escalation(acct, <<Warn(50)>>)
             ELSE Lab3_Escalation(acct, <<Notify>>)
        ELSE Lab3_Escalation(acct, <<>>)

\* The lab-3 hook of the class BankAccountCreator chose.
Lab3_warn_and_lock_if_needed(acct, transaction) ==
    CASE acct.user_type = "ANGEL" ->
            Lab3_Angel_warn_and_lock_if_needed(acct, transaction)
      [] acct.user_type = "TROUBLEMAKER" ->
            Lab3_Troublemaker_warn_and_lock_if_needed(acct, transaction)
      [] acct.user_type = "REBEL" ->
            Lab3_Rebel_warn_and_lock_if_needed(acct, transaction)

\* lab-3 BankAccount.record_transaction
Lab3_record_transaction(acct, transaction) ==
    IF acct.locked
    THEN Rejected(acct, "AccountLocked")
    ELSE IF transaction.amount > acct.bank_balance
    THEN Rejected(acct, "InsufficientFunds")
    ELSE IF get_budget(acct.budgets, transaction.budget_category).locked
    THEN Rejected(acct, "BudgetLocked")
    ELSE LET e == Lab3_warn_and_lock_if_needed(
                      apply_transaction(acct, transaction), transaction)
         IN  [accepted |-> TRUE, result |-> "Accepted"] @@ e

\* ---- the state machine --------------------------------------------------
VARIABLES
    account,    \* the BankAccount object, its BudgetManager included
    last,       \* the latest call of record_transaction: its argument, the
                \* account it found and what it returned
    shown,      \* what the latest menu choice listed, when it was "View
                \* Transactions by Budget"
    threads,    \* callers that run record_transaction on the account side
                \* by side: where each is in the method, and its locals
    lab3,       \* the lab-3 BankAccount opened with the same inputs as
                \* account, and what its latest record_transaction returned,
                \* where the two programs run side by side
    lab11       \* the lab-11 program, where it runs: the shared
                \* CityOverheadTimesList, its lock, the three request threads
                \* and main

vars == <<account, last, shown, threads, lab3, lab11>>

Amounts == 1..MaxAmount

Transactions == {Transaction(a, c) : a \in Amounts, c \in BudgetCategory}

\* Opening balances: one that a single transaction can exhaust and one that
\* MaxTx transactions of the largest amount exhaust exactly.
OpeningBalances == {MaxAmount, MaxAmount * MaxTx}

\* Budget totals entered at account creation (BudgetCreator.create_budget
\* accepts any amount > 0).
TotalAmounts ==
    { [c \in BudgetCategory |->
          CASE c = "GAMES_AND_ENTERTAINMENT" -> 4
            [] c = "CLOTHING_AND_ACCESSORIES" -> 10
            [] c = "EATING_OUT" -> 5
            [] OTHER -> 2] }

\* The smallest totals: every budget is exceeded by one transaction of 2.
SmallTotalAmounts == { [c \in BudgetCategory |-> 1] }

\* BudgetCreator.create_budget_manager
create_budget_manager(totals) ==
    [c \in BudgetCategory |-> Budget(c, totals[c])]

\* No listing: the latest menu choice was not "View Transactions by Budget".
NoQuery ==
    [queried |-> FALSE, category |-> "None", transactions |-> <<>>,
     message |-> "None"]

\* The callers that share the account.
Threads == {"t1", "t2"}

\* A caller outside record_transaction, with what its latest call returned.
IdleThread(returned) ==
    [pc |-> "idle", transaction |-> Transaction(1, "MISCELLANEOUS"),
     loaded |-> 0, returned |-> returned]

\* No caller is inside record_transaction.
NoThreads == [th \in Threads |-> IdleThread("None")]

\* The value of threads, of lab3 and of lab11 in a run that has none.
NotRunning == "NotRunning"

\* The lab-3 account as its BankAccountCreator returns it, before any call.
Lab3Opened(acct) ==
    [acct |-> acct, called |-> FALSE, before |-> acct, accepted |-> FALSE]

\* ---- the lab-11 program: city_processor.py ----
\* The cities of db.city_db, in the order of the list.
Cities == 1..NumCities

\* t1, t2, t3 of main, in the order they are started and joined.
Workers == <<"t1", "t2", "t3">>

WorkerNames == {Workers[n] : n \in 1..Len(Workers)}

\* CityOverheadTimesList.__init__ and CityOverheadTimesRequestThread.__init__
\* as main calls them: an empty list, a free lock and three threads that were
\* not started yet, each with the whole city list.
Lab11Created ==
    [data |-> <<>>, lock |-> "None",
     workers |-> [w \in WorkerNames |->
                     [pc |-> "created", city |-> 1, times |-> <<>>,
                      read |-> <<>>, raised |-> FALSE]],
     main |-> [pc |-> "start", n |-> 1, printed |-> <<>>]]

NoCall(acct) ==
    [called |-> FALSE, transaction |-> Transaction(1, "MISCELLANEOUS"),
     before |-> acct, accepted |-> FALSE, result |-> "None",
     actions |-> <<>>, review |-> <<>>]

\* BankAccountCreator.create_bank_account
Init ==
    /\ \E u \in UserType, b \in OpeningBalances, totals \in TotalAmounts :
          account = Account(u, b, create_budget_manager(totals))
    /\ last = NoCall(account)
    /\ shown = NoQuery
    /\ threads = NotRunning
    /\ lab3 = NotRunning
    /\ lab11 = NotRunning

\* Driver.record_transaction: one transaction is created and recorded.  The
\* driver has no handler, so a call that raised was the program's last.
RecordTransaction(transaction) ==
    \E r \in {record_transaction(account, transaction)} :
        /\ last.result \notin Exceptions
        /\ r.accepted => Len(account.transactions) < MaxTx
        /\ account' = r.acct
        /\ last' = [called |-> TRUE, transaction |-> transaction,
                    before |-> account,
                    accepted |-> r.accepted, result |-> r.result,
                    actions |-> r.actions, review |-> r.review]
        /\ shown' = NoQuery
        /\ UNCHANGED <<threads, lab3, lab11>>

Next == \E transaction \in Transactions : RecordTransaction(transaction)

Spec == Init /\ [][Next]_vars

\* ---- the menu left running ----
\* An account of any profile opened with the balance MaxAmount.
InitSubmit ==
    /\ \E u \in UserType, totals \in TotalAmounts \cup SmallTotalAmounts :
          account = Account(u, MaxAmount, create_budget_manager(totals))
    /\ last = NoCall(account)
    /\ shown = NoQuery
    /\ threads = NotRunning
    /\ lab3 = NotRunning
    /\ lab11 = NotRunning

\* Driver.record_transaction, for as long as the user goes on choosing it:
\* nothing but the account itself limits the transactions it takes.
Submit(transaction) ==
    \E r \in {record_transaction(account, transaction)} :
        /\ last.result \notin Exceptions
        /\ account' = r.acct
        /\ last' = [called |-> TRUE, transaction |-> transaction,
                    before |-> account,
                    accepted |-> r.accepted, result |-> r.result,
                    actions |-> r.actions, review |-> r.review]
        /\ shown' = NoQuery
        /\ UNCHANGED <<threads, lab3, lab11>>

NextSubmit == \E transaction \in Transactions : Submit(transaction)

\* The user submits transactions for ever: the menu loop never ends on its
\* own, and a submission is always possible.
SpecSubmit == InitSubmit /\ [][NextSubmit]_vars /\ WF_vars(NextSubmit)

\* Accounts of every profile opened with the larger balance.
InitFunded ==
    /\ \E u \in UserType, totals \in TotalAmounts :
          account = Account(u, MaxAmount * MaxTx,
                            create_budget_manager(totals))
    /\ last = NoCall(account)
    /\ shown = NoQuery
    /\ threads = NotRunning
    /\ lab3 = NotRunning
    /\ lab11 = NotRunning

SpecFunded == InitFunded /\ [][Next]_vars

\* A Troublemaker account alone, also with the smallest budget totals.
InitTroublemaker ==
    /\ \E b \in OpeningBalances, totals \in TotalAmounts \cup SmallTotalAmounts :
          account = Account("TROUBLEMAKER", b, create_budget_manager(totals))
    /\ last = NoCall(account)
    /\ shown = NoQuery
    /\ threads = NotRunning
    /\ lab3 = NotRunning
    /\ lab11 = NotRunning

SpecTroublemaker == InitTroublemaker /\ [][Next]_vars

\* ---- the lab-3 program ----
\* lab-3 Driver.create_transaction: the amount is whatever number was typed;
\* nothing refuses zero or a negative amount.
Lab3_Amounts == (0 - 1)..MaxAmount

Lab3_Transactions ==
    {Transaction(a, c) : a \in Lab3_Amounts, c \in BudgetCategory}

\* lab-3 BankAccountCreator: a Troublemaker account (the class of
\* load_test_account) with budget totals as create_budgets accepts them.
InitLab3 ==
    /\ \E totals \in TotalAmounts :
          account = Account("TROUBLEMAKER", MaxAmount * MaxTx,
                            create_budget_manager(totals))
    /\ last = NoCall(account)
    /\ shown = NoQuery
    /\ threads = NotRunning
    /\ lab3 = NotRunning
    /\ lab11 = NotRunning

\* lab-3 Driver.record_transaction
Lab3_RecordTransaction(transaction) ==
    \E r \in {Lab3_record_transaction(account, transaction)} :
        /\ r.accepted => Len(account.transactions) < MaxTx
        /\ account' = r.acct
        /\ last' = [called |-> TRUE, transaction |-> transaction,
                    before |-> account,
                    accepted |-> r.accepted, result |-> r.result,
                    actions |-> r.actions, review |-> r.review]
        /\ shown' = NoQuery
        /\ UNCHANGED <<threads, lab3, lab11>>

NextLab3 ==
    \E transaction \in Lab3_Transactions : Lab3_RecordTransaction(transaction)

SpecLab3 == InitLab3 /\ [][NextLab3]_vars

\* ---- the two programs side by side ----
\* Accounts of one profile, balance and budget totals opened in both programs.
InitBoth ==
    /\ \E u \in UserType, totals \in TotalAmounts \cup SmallTotalAmounts :
          account = Account(u, MaxAmount * MaxTx,
                            create_budget_manager(totals))
    /\ last = NoCall(account)
    /\ shown = NoQuery
    /\ threads = NotRunning
    /\ lab3 = Lab3Opened(account)
    /\ lab11 = NotRunning

\* The same transaction is recorded by the assignment-1 account and by the
\* lab-3 account, while neither history holds MaxTx transactions.
RecordBoth(transaction) ==
    \E r \in {record_transaction(account, transaction)},
       r3 \in {Lab3_record_transaction(lab3.acct, transaction)} :
        /\ r.accepted => Len(account.transactions) < MaxTx
        /\ r3.accepted => Len(lab3.acct.transactions) < MaxTx
        /\ account' = r.acct
        /\ last' = [called |-> TRUE, transaction |-> transaction,
                    before |-> account,
                    accepted |-> r.accepted, result |-> r.result,
                    actions |-> r.actions, review |-> r.review]
        /\ lab3' = [acct |-> r3.acct, called |-> TRUE, before |-> lab3.acct,
                    accepted |-> r3.accepted]
        /\ shown' = NoQuery
        /\ UNCHANGED <<threads, lab11>>

NextBoth == \E transaction \in Transactions : RecordBoth(transaction)

SpecBoth == InitBoth /\ [][NextBoth]_vars

\* ---- the classes used directly ----
\* Totals handed to Budget.__init__, which takes any number: zero, and one
\* that a transaction can exceed.
ApiTotalAmounts == {0, 2}

\* The account is constructed around an empty BudgetManager.
InitApi ==
    /\ \E u \in UserType : account = Account(u, MaxAmount, BudgetManager)
    /\ last = NoCall(account)
    /\ shown = NoQuery
    /\ threads = NotRunning
    /\ lab3 = NotRunning
    /\ lab11 = NotRunning

\* Budget(category, total_amount) is constructed and added to the manager,
\* before the account is used.
AddBudget(category, total_amount) ==
    /\ ~last.called
    /\ account' = [account EXCEPT
                      !.budgets = add_budget(@, Budget(category, total_amount))]
    /\ last' = NoCall(account')
    /\ UNCHANGED <<shown, threads, lab3, lab11>>

NextApi ==
    \/ \E c \in BudgetCategory, total_amount \in ApiTotalAmounts :
          AddBudget(c, total_amount)
    \/ \E transaction \in Transactions : RecordTransaction(transaction)

SpecApi == InitApi /\ [][NextApi]_vars

\* ---- the menu with the listing ----
\* An account of any profile whose balance one transaction can exhaust.
InitQuery ==
    /\ \E u \in UserType, totals \in TotalAmounts :
          account = Account(u, MaxAmount, create_budget_manager(totals))
    /\ last = NoCall(account)
    /\ shown = NoQuery
    /\ threads = NotRunning
    /\ lab3 = NotRunning
    /\ lab11 = NotRunning

\* Driver.show_transactions_by_budget: the transactions of the chosen
\* category are printed, or a line saying there is none.
ShowTransactionsByBudget(category) ==
    /\ last.result \notin Exceptions
    /\ \E transactions \in
            {get_transactions_by_budget(account.transactions, category)} :
          shown' = [queried |-> TRUE, category |-> category,
                    transactions |-> transactions,
                    message |-> IF Len(transactions) = 0
                                THEN "There is no transaction in this category!"
                                ELSE "Transactions"]
    /\ UNCHANGED <<account, last, threads, lab3, lab11>>

NextQuery ==
    \/ \E transaction \in Transactions : RecordTransaction(transaction)
    \/ \E category \in BudgetCategory : ShowTransactionsByBudget(category)

SpecQuery == InitQuery /\ [][NextQuery]_vars

\* ---- record_transaction called from two threads ----
\* record_transaction holds no lock, so callers on two threads interleave
\* between its statements, and between the load and the store of each
\* augmented assignment.
InitThreads ==
    /\ \E totals \in TotalAmounts :
          account = Account("TROUBLEMAKER", MaxAmount,
                            create_budget_manager(totals))
    /\ last = NoCall(account)
    /\ shown = NoQuery
    /\ threads = NoThreads
    /\ lab3 = NotRunning
    /\ lab11 = NotRunning

\* The thread moves to the statement at pc.
Goto(th, pc) == threads' = [threads EXCEPT ![th].pc = pc]

\* The thread leaves record_transaction.
Return(th, returned) == threads' = [threads EXCEPT ![th] = IdleThread(returned)]

\* A thread enters record_transaction(transaction), while the transactions
\* in the history and the calls under way are fewer than MaxTx.
Call(th, transaction) ==
    /\ threads[th].pc = "idle"
    /\ Len(account.transactions)
          + Cardinality({other \in Threads :
                            threads[other].pc
                               \in {"check_locked", "check_funds",
                                    "check_budget", "append"}})
          < MaxTx
    /\ threads' = [threads EXCEPT ![th] =
                      [pc |-> "check_locked", transaction |-> transaction,
                       loaded |-> 0, returned |-> "None"]]
    /\ UNCHANGED <<account, last, shown, lab3, lab11>>

\* if self._locked: ... return False
CheckLocked(th) ==
    /\ threads[th].pc = "check_locked"
    /\ IF account.locked
       THEN Return(th, "AccountLocked")
       ELSE Goto(th, "check_funds")
    /\ UNCHANGED <<account, last, shown, lab3, lab11>>

\* if transaction.amount > self.bank_balance: ... return False
CheckFunds(th) ==
    /\ threads[th].pc = "check_funds"
    /\ IF threads[th].transaction.amount > account.bank_balance
       THEN Return(th, "InsufficientFunds")
       ELSE Goto(th, "check_budget")
    /\ UNCHANGED <<account, last, shown, lab3, lab11>>

\* budget = self.budget_manager.get_budget(...); if budget.locked: ...
CheckBudget(th) ==
    /\ threads[th].pc = "check_budget"
    /\ IF get_budget(account.budgets,
                     threads[th].transaction.budget_category).locked
       THEN Return(th, "BudgetLocked")
       ELSE Goto(th, "append")
    /\ UNCHANGED <<account, last, shown, lab3, lab11>>

\* self.transactions.append(transaction)
AppendTransaction(th) ==
    /\ threads[th].pc = "append"
    /\ account' = [account EXCEPT
                      !.transactions = Append(@, threads[th].transaction)]
    /\ Goto(th, "debit_load")
    /\ UNCHANGED <<last, shown, lab3, lab11>>

\* self.bank_balance -= transaction.amount: the balance is read
DebitLoad(th) ==
    /\ threads[th].pc = "debit_load"
    /\ threads' = [threads EXCEPT ![th].pc = "debit_store",
                                  ![th].loaded = account.bank_balance]
    /\ UNCHANGED <<account, last, shown, lab3, lab11>>

\* self.bank_balance -= transaction.amount: the difference is stored
DebitStore(th) ==
    /\ threads[th].pc = "debit_store"
    /\ account' = [account EXCEPT
                      !.bank_balance =
                          threads[th].loaded - threads[th].transaction.amount]
    /\ threads' = [threads EXCEPT ![th].pc = "credit_load",
                                  ![th].loaded = 0]
    /\ UNCHANGED <<last, shown, lab3, lab11>>

\* budget.amount_spent += transaction.amount: the amount spent is read
CreditLoad(th) ==
    /\ threads[th].pc = "credit_load"
    /\ threads' = [threads EXCEPT
                      ![th].pc = "credit_store",
                      ![th].loaded =
                          get_budget(account.budgets,
                                     threads[th].transaction.budget_category)
                              .amount_spent]
    /\ UNCHANGED <<account, last, shown, lab3, lab11>>

\* budget.amount_spent += transaction.amount: the sum is stored
CreditStore(th) ==
    /\ threads[th].pc = "credit_store"
    /\ account' = [account EXCEPT
                      !.budgets[threads[th].transaction.budget_category]
                          .amount_spent =
                          threads[th].loaded + threads[th].transaction.amount]
    /\ threads' = [threads EXCEPT ![th].pc = "hook", ![th].loaded = 0]
    /\ UNCHANGED <<last, shown, lab3, lab11>>

\* self._warn_and_lock_if_needed(transaction); return True
Hook(th) ==
    /\ threads[th].pc = "hook"
    /\ account' = warn_and_lock_if_needed(account, threads[th].transaction).acct
    /\ Return(th, "Accepted")
    /\ UNCHANGED <<last, shown, lab3, lab11>>

NextThreads ==
    \E th \in Threads :
        \/ \E transaction \in Transactions : Call(th, transaction)
        \/ CheckLocked(th)
        \/ CheckFunds(th)
        \/ CheckBudget(th)
        \/ AppendTransaction(th)
        \/ DebitLoad(th)
        \/ DebitStore(th)
        \/ CreditLoad(th)
        \/ CreditStore(th)
        \/ Hook(th)

SpecThreads == InitThreads /\ [][NextThreads]_vars

\* ---- lab-11: three request threads and one shared list ----
\* main before t1.start()
InitLab11 ==
    /\ \E totals \in TotalAmounts :
          account = Account("ANGEL", MaxAmount, create_budget_manager(totals))
    /\ last = NoCall(account)
    /\ shown = NoQuery
    /\ threads = NotRunning
    /\ lab3 = NotRunning
    /\ lab11 = Lab11Created

\* threading.Lock.acquire as "with self.lock" calls it: who holds the lock
\* once the thread has asked for it.  A lock that another thread holds stays
\* with that thread, and the caller waits.
Lock_acquire_unheld(holder, thread) == thread

Lock_acquire(holder, thread) ==
    IF holder = "None" THEN thread ELSE holder

\* The entry that get_overhead_pass builds for a city: the thread that asked
\* is kept with it, so that the entries of the three threads are told apart.
CityOverheadTimes(thread, city) == <<thread, city>>

\* main: t1.start(), t2.start(), t3.start(), in this order.  run enters its
\* loop over self.cities.
Start ==
    /\ lab11.main.pc = "start"
    /\ lab11' = [lab11 EXCEPT
                    !.workers[Workers[lab11.main.n]].pc =
                        IF NumCities = 0 THEN "finished" ELSE "request",
                    !.main.n = IF @ = Len(Workers) THEN 1 ELSE @ + 1,
                    !.main.pc = IF lab11.main.n = Len(Workers)
                                THEN "join" ELSE "start"]
    /\ UNCHANGED <<account, last, shown, threads, lab3>>

\* city_overhead_times = request.get_overhead_pass(city): the GET returned a
\* body with a 'response' member.
Request(w) ==
    /\ lab11.workers[w].pc = "request"
    /\ lab11' = [lab11 EXCEPT
                    !.workers[w].pc = "acquire",
                    !.workers[w].times =
                        CityOverheadTimes(w, lab11.workers[w].city)]
    /\ UNCHANGED <<account, last, shown, threads, lab3>>

\* request.get_overhead_pass(city) raised (the GET failed, or the body had no
\* 'response' member).  run has no handler: the exception ends the thread.
RequestRaises(w) ==
    /\ lab11.workers[w].pc = "request"
    /\ lab11' = [lab11 EXCEPT !.workers[w].pc = "finished",
                              !.workers[w].raised = TRUE]
    /\ UNCHANGED <<account, last, shown, threads, lab3>>

\* CityOverheadTimesList.append: with self.lock
Acquire(w) ==
    /\ lab11.workers[w].pc = "acquire"
    /\ Lock_acquire(lab11.lock, w) = w
    /\ lab11' = [lab11 EXCEPT !.lock = w, !.workers[w].pc = "append_read"]
    /\ UNCHANGED <<account, last, shown, threads, lab3>>

\* self.data.append(city_overhead_times): the list is read.  Nothing is
\* assumed about the append being one step.
AppendRead(w) ==
    /\ lab11.workers[w].pc = "append_read"
    /\ lab11' = [lab11 EXCEPT !.workers[w].read = lab11.data,
                              !.workers[w].pc = "append_write"]
    /\ UNCHANGED <<account, last, shown, threads, lab3>>

\* self.data.append(city_overhead_times): the list that was read is stored
\* with the entry at its end.
AppendWrite(w) ==
    /\ lab11.workers[w].pc = "append_write"
    /\ lab11' = [lab11 EXCEPT
                    !.data = Append(lab11.workers[w].read,
                                    lab11.workers[w].times),
                    !.workers[w].read = <<>>,
                    !.workers[w].pc = "release"]
    /\ UNCHANGED <<account, last, shown, threads, lab3>>

\* The with block of append is left: the lock is released, and run goes on
\* to its next city, or returns after the last one.
Release(w) ==
    /\ lab11.workers[w].pc = "release"
    /\ lab11' = [lab11 EXCEPT
                    !.lock = "None",
                    !.workers[w].times = <<>>,
                    !.workers[w].city = @ + 1,
                    !.workers[w].pc =
                        IF lab11.workers[w].city = NumCities
                        THEN "finished" ELSE "request"]
    /\ UNCHANGED <<account, last, shown, threads, lab3>>

\* main: t1.join(), t2.join(), t3.join(), each returning once its thread has
\* ended.
Join ==
    /\ lab11.main.pc = "join"
    /\ lab11.workers[Workers[lab11.main.n]].pc = "finished"
    /\ lab11' = [lab11 EXCEPT
                    !.main.n = IF @ = Len(Workers) THEN 1 ELSE @ + 1,
                    !.main.pc = IF lab11.main.n = Len(Workers)
                                THEN "print" ELSE "join"]
    /\ UNCHANGED <<account, last, shown, threads, lab3>>

\* main: for times in times_list.data: print(times)
PrintTimes ==
    /\ lab11.main.pc = "print"
    /\ lab11' = [lab11 EXCEPT !.main.printed = lab11.data,
                              !.main.pc = "done"]
    /\ UNCHANGED <<account, last, shown, threads, lab3>>

NextLab11 ==
    \/ Start
    \/ Join
    \/ PrintTimes
    \/ \E w \in WorkerNames :
          \/ Request(w)
          \/ RequestRaises(w)
          \/ Acquire(w)
          \/ AppendRead(w)
          \/ AppendWrite(w)
          \/ Release(w)

SpecLab11 == InitLab11 /\ [][NextLab11]_vars

\* ---- the claims ---------------------------------------------------------
Rejections == {"AccountLocked", "InsufficientFunds", "BudgetLocked"}

\* The budget the latest call was aimed at, as the call found it and left it.
BudgetBefore == get_budget(last.before.budgets, last.transaction.budget_category)
BudgetAfter == get_budget(account.budgets, last.transaction.budget_category)

\* C1: record_transaction checks (1) account not locked, (2) amount <=
\* balance, (3) budget not locked, in this order, and the first check that
\* fails names the rejection: a locked account answers AccountLocked whatever
\* the funds and the budget, and an unlocked account short of funds answers
\* InsufficientFunds even when the budget is locked.
C1_CheckOrder ==
    last.called =>
        /\ last.before.locked => last.result = "AccountLocked"
        /\ (~last.before.locked
              /\ last.transaction.amount > last.before.bank_balance)
           => last.result = "InsufficientFunds"
        /\ (~last.before.locked
              /\ last.transaction.amount <= last.before.bank_balance
              /\ BudgetBefore.locked)
           => last.result = "BudgetLocked"
        /\ (~last.before.locked
              /\ last.transaction.amount <= last.before.bank_balance
              /\ ~BudgetBefore.locked)
           => last.result = "Accepted"

\* C1 witness: a locked account turned down, with AccountLocked, a
\* transaction that also lacked funds and was aimed at a locked budget.
C1_Witness ==
    /\ last.called
    /\ last.result = "AccountLocked"
    /\ last.transaction.amount > last.before.bank_balance
    /\ BudgetBefore.locked

\* C2: a rejected call leaves the account as it found it: balance, every
\* budget's amount spent and lock, the account lock and the history.
C2_RejectionLeavesState ==
    (last.called /\ ~last.accepted) =>
        /\ last.result \in Rejections
        /\ account.bank_balance = last.before.bank_balance
        /\ account.transactions = last.before.transactions
        /\ account.locked = last.before.locked
        /\ \A c \in BudgetCategory :
              /\ account.budgets[c].amount_spent
                    = last.before.budgets[c].amount_spent
              /\ account.budgets[c].locked = last.before.budgets[c].locked
        /\ account = last.before

\* C2 witness: an InsufficientFunds rejection on an account with history.
C2_Witness ==
    /\ last.called
    /\ last.result = "InsufficientFunds"
    /\ Len(account.transactions) > 0

\* C3: an accepted transaction debits the balance by its amount, credits the
\* targeted budget's amount spent by its amount, and is appended at the end
\* of the history.
C3_AcceptEffect ==
    (last.called /\ last.accepted) =>
        /\ account.bank_balance
              = last.before.bank_balance - last.transaction.amount
        /\ BudgetAfter.amount_spent
              = BudgetBefore.amount_spent + last.transaction.amount
        /\ account.transactions
              = Append(last.before.transactions, last.transaction)

\* C3 witness: a transaction accepted after others, against a budget that
\* already had spending.
C3_Witness ==
    /\ last.called
    /\ last.accepted
    /\ Len(last.before.transactions) > 0
    /\ BudgetBefore.amount_spent > 0

\* C4: a transaction for exactly the balance is accepted when the account and
\* the budget are unlocked, and leaves the balance at 0; InsufficientFunds is
\* the answer only when the amount is strictly greater than the balance.
C4_EqualityAccepted ==
    last.called =>
        /\ (~last.before.locked /\ ~BudgetBefore.locked
              /\ last.transaction.amount = last.before.bank_balance)
           => (last.accepted /\ account.bank_balance = 0)
        /\ last.result = "InsufficientFunds"
           => last.transaction.amount > last.before.bank_balance

\* C4 witness: the whole balance was spent by one accepted transaction.
C4_Witness ==
    /\ last.called
    /\ last.accepted
    /\ last.transaction.amount = last.before.bank_balance
    /\ account.bank_balance = 0

\* C5: a rejected transaction submitted again right away is rejected with
\* the same kind, and neither attempt changes the account.
C5_RejectionIdempotent ==
    (last.called /\ ~last.accepted) =>
        LET again == record_transaction(account, last.transaction)
        IN  /\ account = last.before
            /\ ~again.accepted
            /\ again.result = last.result
            /\ again.acct = account

\* C5 witness: a BudgetLocked rejection, after which the same transaction
\* can be submitted again.
C5_Witness ==
    /\ last.called
    /\ last.result = "BudgetLocked"
    /\ ENABLED RecordTransaction(last.transaction)

\* The ratio of the targeted budget after the latest call.
RatioAfter == exceeded_ratio(BudgetAfter)
RatioBefore == exceeded_ratio(BudgetBefore)

\* C6: an Angel account never has a locked budget or a locked account, and
\* each accepted transaction yields Notify when the ratio after it is > 1,
\* Warn(90) when it is > 0.9 and <= 1, and nothing when it is <= 0.9.
C6_Permissive ==
    account.user_type = "ANGEL" =>
        /\ ~account.locked
        /\ \A c \in BudgetCategory : ~account.budgets[c].locked
        /\ (last.called /\ last.accepted) =>
              /\ RatioGT(RatioAfter, 1, 1)
                 => last.actions = <<Notify, Review>>
              /\ (~RatioGT(RatioAfter, 1, 1) /\ RatioGT(RatioAfter, 9, 10))
                 => last.actions = <<Warn(90), Review>>
              /\ ~RatioGT(RatioAfter, 9, 10) => last.actions = <<>>

\* C6 witness: an Angel transaction brought a budget to exactly 90% and
\* nothing was issued.
C6_Witness ==
    /\ account.user_type = "ANGEL"
    /\ last.called
    /\ last.accepted
    /\ RatioAfter[1] * 10 = 9 * RatioAfter[2]
    /\ last.actions = <<>>

\* C7: each accepted Troublemaker transaction yields one band's outputs by
\* the ratio r after it: r > 1.2 locks the budget (no Notify), 1 < r <= 1.2
\* notifies only, 0.75 < r <= 1 warns at 75% only, r <= 0.75 yields nothing.
C7_ModerateBands ==
    (account.user_type = "TROUBLEMAKER" /\ last.called /\ last.accepted) =>
        /\ RatioGT(RatioAfter, 6, 5)
           => (last.actions = <<LockBudget, Review>> /\ BudgetAfter.locked)
        /\ (~RatioGT(RatioAfter, 6, 5) /\ RatioGT(RatioAfter, 1, 1))
           => (last.actions = <<Notify, Review>> /\ ~BudgetAfter.locked)
        /\ (~RatioGT(RatioAfter, 1, 1) /\ RatioGT(RatioAfter, 3, 4))
           => (last.actions = <<Warn(75), Review>> /\ ~BudgetAfter.locked)
        /\ ~RatioGT(RatioAfter, 3, 4)
           => (last.actions = <<>> /\ ~BudgetAfter.locked)

\* C7 witness: a Troublemaker transaction brought a budget to exactly 120%;
\* it was notified and the budget stayed unlocked.
C7_Witness ==
    /\ account.user_type = "TROUBLEMAKER"
    /\ last.called
    /\ last.accepted
    /\ RatioAfter[1] * 5 = 6 * RatioAfter[2]
    /\ last.actions = <<Notify, Review>>
    /\ ~BudgetAfter.locked

\* C8: on a Troublemaker account a budget whose ratio is above 1.2 is locked
\* and stays locked; every transaction against a locked category that the
\* balance covers is rejected as BudgetLocked, one against an unlocked
\* category is accepted, and the account is never locked, whatever the
\* number of locked budgets.  The last three are stated of the latest call
\* and of every call that could come next.
C8_ModerateLock ==
    account.user_type = "TROUBLEMAKER" =>
        /\ ~account.locked
        /\ \A c \in BudgetCategory :
              RatioGT(exceeded_ratio(account.budgets[c]), 6, 5)
              => account.budgets[c].locked
        /\ last.called =>
              /\ \A c \in BudgetCategory :
                    last.before.budgets[c].locked => account.budgets[c].locked
              /\ last.transaction.amount <= last.before.bank_balance
                 => (last.result = IF BudgetBefore.locked
                                   THEN "BudgetLocked" ELSE "Accepted")
        /\ \A t \in Transactions :
              LET next == record_transaction(account, t)
              IN  /\ ~next.acct.locked
                  /\ \A c \in BudgetCategory :
                        account.budgets[c].locked => next.acct.budgets[c].locked
                  /\ t.amount <= account.bank_balance
                     => (next.result = IF account.budgets[t.budget_category].locked
                                       THEN "BudgetLocked" ELSE "Accepted")

\* C8 witness: three budgets of a Troublemaker account are locked, a covered
\* transaction against one of them was rejected as BudgetLocked, and a
\* transaction against the fourth would be accepted and lock it too.
C8_Witness ==
    /\ account.user_type = "TROUBLEMAKER"
    /\ last.called
    /\ last.result = "BudgetLocked"
    /\ last.transaction.amount <= last.before.bank_balance
    /\ no_locked_budgets(account.budgets) = 3
    /\ ~account.locked
    /\ \E t \in Transactions :
          LET next == record_transaction(account, t)
          IN  /\ next.accepted
              /\ no_locked_budgets(next.acct.budgets) = 4
              /\ ~next.acct.locked

\* C9: an accepted Rebel transaction with ratio r > 1 after it yields Notify,
\* LockBudget, the review, and then LockAccount if two or more budgets are
\* locked by then; with 0.5 < r <= 1 it yields Warn(50) only, every time;
\* with r <= 0.5 nothing.
C9_StrictBands ==
    (account.user_type = "REBEL" /\ last.called /\ last.accepted) =>
        /\ RatioGT(RatioAfter, 1, 1)
           => /\ BudgetAfter.locked
              /\ account.locked = (no_locked_budgets(account.budgets) >= 2)
              /\ last.actions =
                    IF no_locked_budgets(account.budgets) >= 2
                    THEN <<Notify, LockBudget, Review, LockAccount>>
                    ELSE <<Notify, LockBudget, Review>>
        /\ (~RatioGT(RatioAfter, 1, 1) /\ RatioGT(RatioAfter, 1, 2))
           => /\ last.actions = <<Warn(50), Review>>
              /\ ~BudgetAfter.locked
              /\ ~account.locked
        /\ ~RatioGT(RatioAfter, 1, 2)
           => /\ last.actions = <<>>
              /\ ~BudgetAfter.locked
              /\ ~account.locked

\* C9 witness: a Rebel budget already past 50% was brought to exactly 100%:
\* it was warned again and not locked.
C9_Witness ==
    /\ account.user_type = "REBEL"
    /\ last.called
    /\ last.accepted
    /\ RatioGT(RatioBefore, 1, 2)
    /\ RatioAfter[1] = RatioAfter[2]
    /\ last.actions = <<Warn(50), Review>>
    /\ ~BudgetAfter.locked

\* C10: on a Rebel account the transaction that locks the second budget
\* locks the account, and from then on every transaction is rejected as
\* AccountLocked, whatever its budget and the funds.
C10_StrictCascade ==
    account.user_type = "REBEL" =>
        /\ no_locked_budgets(account.budgets) >= 2 => account.locked
        /\ last.called =>
              /\ (last.accepted
                    /\ no_locked_budgets(last.before.budgets) = 1
                    /\ RatioGT(RatioAfter, 1, 1))
                 => (account.locked /\ no_locked_budgets(account.budgets) = 2)
              /\ last.before.locked
                 => (last.result = "AccountLocked" /\ account.locked)
        /\ account.locked =>
              \A t \in Transactions :
                 LET next == record_transaction(account, t)
                 IN  next.result = "AccountLocked" /\ next.acct.locked

\* C10 witness: a locked Rebel account rejected, as AccountLocked, a covered
\* transaction against an unlocked budget with nothing spent.
C10_Witness ==
    /\ account.user_type = "REBEL"
    /\ last.called
    /\ last.result = "AccountLocked"
    /\ no_locked_budgets(account.budgets) = 2
    /\ BudgetBefore.amount_spent = 0
    /\ ~BudgetBefore.locked
    /\ last.transaction.amount <= last.before.bank_balance

\* C11: the account is locked only on a Rebel account, only by a call that
\* was accepted and itself locked its budget, and only with two or more
\* budgets locked by then; a Rebel call that locks the first budget leaves
\* the account unlocked.
C11_AccountLockOrigin ==
    /\ account.locked
       => (account.user_type = "REBEL"
             /\ no_locked_budgets(account.budgets) >= 2)
    /\ (last.called /\ account.locked /\ ~last.before.locked)
       => /\ account.user_type = "REBEL"
          /\ last.accepted
          /\ ~BudgetBefore.locked
          /\ BudgetAfter.locked
          /\ no_locked_budgets(account.budgets) >= 2
    /\ (last.called /\ last.accepted /\ BudgetAfter.locked
          /\ no_locked_budgets(last.before.budgets) = 0)
       => ~account.locked

\* C11 witness: the Rebel call that locked the account.
C11_Witness ==
    /\ last.called
    /\ last.accepted
    /\ ~last.before.locked
    /\ account.locked

\* C12: once the account is locked it stays locked, and no call that finds
\* it locked is accepted or changes the account, whatever the call.
C12_AccountLockMonotonic ==
    [][account.locked
       => /\ account'.locked
          /\ ~last'.accepted
          /\ account' = account
          /\ \A t \in Transactions :
                LET next == record_transaction(account', t)
                IN  /\ ~next.accepted
                    /\ next.result = "AccountLocked"
                    /\ next.acct = account']_vars

\* C12 witness: a call found the account locked.
C12_Witness ==
    /\ last.called
    /\ last.before.locked
    /\ account.locked

\* C13: Budget.lock sets the flag whatever it was, locking twice is locking
\* once, and no call unlocks a budget, so the number of locked budgets never
\* decreases.
C13_BudgetLockIrreversible ==
    /\ \A c \in DOMAIN account.budgets :
          LET budget == account.budgets[c]
          IN  /\ lock(budget).locked
              /\ lock(lock(budget)) = lock(budget)
              /\ last.before.budgets[c].locked => budget.locked
    /\ no_locked_budgets(account.budgets)
          >= no_locked_budgets(last.before.budgets)

\* C13 witness: a call was made on an account with a locked budget, which is
\* still locked.
C13_Witness ==
    /\ last.called
    /\ \E c \in DOMAIN account.budgets :
          last.before.budgets[c].locked /\ account.budgets[c].locked

\* C20: a warning and a notification only print. An accepted call whose
\* outputs are a warning or a notification, with the review and no lock,
\* leaves the account exactly as the accept mutations made it: every budget
\* lock and the account lock are as the call found them.
C20_WarnNotifyInformational ==
    (/\ last.called
     /\ last.accepted
     /\ \E i \in 1..Len(last.actions) :
           last.actions[i].action \in {"Warn", "Notify"}
     /\ \A i \in 1..Len(last.actions) :
           last.actions[i].action \in {"Warn", "Notify", "Review"})
    => /\ account = apply_transaction(last.before, last.transaction)
       /\ account.locked = last.before.locked
       /\ \A c \in DOMAIN account.budgets :
             account.budgets[c].locked = last.before.budgets[c].locked

\* C20 witness: an accepted call that only notified, on a budget now past its
\* total and still unlocked.
C20_Witness ==
    /\ last.called
    /\ last.accepted
    /\ last.actions = <<Notify, Review>>
    /\ ~BudgetAfter.locked

\* C14: the balance after a call is never above the balance before it, and
\* is below it exactly when the call was accepted.
C14_BalanceOnlyDecreases ==
    last.called
    => /\ account.bank_balance <= last.before.bank_balance
       /\ last.accepted <=> account.bank_balance < last.before.bank_balance

C16_UnknownCategoryRejected ==
    (/\ last.called
     /\ ~last.before.locked
     /\ last.transaction.amount <= last.before.bank_balance
     /\ last.transaction.budget_category \notin DOMAIN last.before.budgets)
    => /\ last.result = "UnknownCategory"
       /\ last.result \notin Exceptions
       /\ ~last.accepted
       /\ account = last.before

\* C17: every budget of every account has total_amount > 0, and no call ends
\* with the exceeded ratio undefined.
C17_BudgetTotalPositive ==
    /\ \A c \in DOMAIN account.budgets : account.budgets[c].total_amount > 0
    /\ last.result # "ZeroDivisionError"

\* The transactions of a history with a given category, in the order of the
\* history.
RECURSIVE OfCategory(_, _)
OfCategory(history, category) ==
    IF history = <<>>
    THEN <<>>
    ELSE IF Head(history).budget_category = category
    THEN <<Head(history)>> \o OfCategory(Tail(history), category)
    ELSE OfCategory(Tail(history), category)

\* C15: the history is the accepted transactions in the order of acceptance
\* (an accepted call appends its transaction, a rejected call leaves the
\* history alone); a listing for a category is the history's transactions of
\* that category in that order, the empty list with a message and no error
\* when there is none; and listing changes neither the account nor the
\* record of the latest call.
C15_ListByCategory ==
    /\ [](/\ ~last.called => account.transactions = <<>>
          /\ (last.called /\ last.accepted)
             => account.transactions
                   = Append(last.before.transactions, last.transaction)
          /\ (last.called /\ ~last.accepted)
             => account.transactions = last.before.transactions
          /\ shown.queried
             => /\ shown.transactions
                      = OfCategory(account.transactions, shown.category)
                /\ \A i \in 1..Len(shown.transactions) :
                      shown.transactions[i].budget_category = shown.category
                /\ shown.message \notin Exceptions
                /\ Len(shown.transactions) = 0
                   <=> shown.message
                          = "There is no transaction in this category!")
    /\ [][shown'.queried => (account' = account /\ last' = last)]_vars

\* C15 witness: a category was listed right after a call for that category
\* was rejected, and the listing shows the two transactions accepted for it
\* earlier, while the history holds another category's transaction between
\* them.
C15_Witness ==
    /\ shown.queried
    /\ last.called
    /\ ~last.accepted
    /\ shown.category = last.transaction.budget_category
    /\ Len(shown.transactions) = 2
    /\ Len(account.transactions) = 3
    /\ account.transactions[2].budget_category # shown.category

\* The sum of amount_spent over the budgets of a manager.
RECURSIVE TotalSpent(_, _)
TotalSpent(budgets, categories) ==
    IF categories = {}
    THEN 0
    ELSE LET c == CHOOSE c \in categories : TRUE
         IN  budgets[c].amount_spent + TotalSpent(budgets, categories \ {c})

\* The sum of the amounts of a history.
RECURSIVE TotalAmount(_)
TotalAmount(history) ==
    IF history = <<>>
    THEN 0
    ELSE Head(history).amount + TotalAmount(Tail(history))

\* C18: with record_transaction called from several threads, a caller that
\* is about to read the account (at the funds check) finds every debit of
\* the balance matched by a credit of a budget, and the amounts of the
\* accepted transactions never add up to more than the opening balance.
C18_ConcurrentCallsAtomic ==
    /\ (\E th \in Threads : threads[th].pc = "check_funds")
       => account.bank_balance + TotalSpent(account.budgets, BudgetCategory)
             = last.before.bank_balance
    /\ TotalAmount(account.transactions) <= last.before.bank_balance

\* C22: whenever a call printed a warning, a notification or a budget lock,
\* it printed the review too, and the review is the history's transactions
\* of that budget as the call leaves it: what the listing of the category
\* gives then, the transactions reviewed before plus the newly recorded one,
\* which is its last element.
C22_ReviewSet ==
    (/\ last.called
     /\ \E i \in 1..Len(last.actions) :
           last.actions[i].action \in {"Warn", "Notify", "LockBudget"})
    => /\ last.accepted
       /\ \E i \in 1..Len(last.actions) : last.actions[i] = Review
       /\ last.review
             = get_transactions_by_budget(account.transactions,
                                          last.transaction.budget_category)
       /\ last.review
             = Append(get_transactions_by_budget(
                          last.before.transactions,
                          last.transaction.budget_category),
                      last.transaction)
       /\ last.review[Len(last.review)] = last.transaction

\* C22 witness: a review of two transactions of one budget, printed with a
\* budget lock, while the history holds a transaction of another budget.
C22_Witness ==
    /\ last.called
    /\ \E i \in 1..Len(last.actions) : last.actions[i] = LockBudget
    /\ Len(last.review) = 2
    /\ Len(account.transactions) = 3

\* C23: the balance plus the amounts spent over all budgets is the opening
\* balance: it is one of the opening balances, it is the balance before any
\* call, and no call changes it; each budget's amount spent is the sum of the
\* amounts of the history's transactions of its category; and the history
\* grows by one with an accepted call and not at all with a rejected one.
C23_Conservation ==
    /\ account.bank_balance + TotalSpent(account.budgets, BudgetCategory)
          \in OpeningBalances
    /\ account.bank_balance + TotalSpent(account.budgets, BudgetCategory)
          = last.before.bank_balance
               + TotalSpent(last.before.budgets, BudgetCategory)
    /\ account.bank_balance + TotalAmount(account.transactions)
          \in OpeningBalances
    /\ ~last.called
       => /\ TotalSpent(account.budgets, BudgetCategory) = 0
          /\ account.transactions = <<>>
    /\ \A c \in BudgetCategory :
          account.budgets[c].amount_spent
             = TotalAmount(get_transactions_by_budget(account.transactions, c))
    /\ (last.called /\ last.accepted)
       => Len(account.transactions) = Len(last.before.transactions) + 1
    /\ (last.called /\ ~last.accepted)
       => Len(account.transactions) = Len(last.before.transactions)

\* C23 witness: three transactions accepted into two budgets, then a
\* rejection.
C23_Witness ==
    /\ last.called
    /\ ~last.accepted
    /\ Len(account.transactions) = 3
    /\ Cardinality({c \in BudgetCategory :
                       account.budgets[c].amount_spent > 0}) = 2

\* The profile's lock threshold is passed: the ratio is above 1 on a Rebel
\* account, above 1.2 on a Troublemaker account, and never on an Angel
\* account.
PastLockThreshold(user_type, budget) ==
    CASE user_type = "REBEL" -> RatioGT(exceeded_ratio(budget), 1, 1)
      [] user_type = "TROUBLEMAKER" -> RatioGT(exceeded_ratio(budget), 6, 5)
      [] user_type = "ANGEL" -> FALSE

\* C24: a budget is locked exactly when its ratio is above the profile's
\* lock threshold; an unlocked Rebel budget has spent no more than its
\* total; and the amount spent of a locked budget is not changed by any call.
C24_LockThreshold ==
    \A c \in BudgetCategory :
        LET budget == account.budgets[c]
        IN  /\ budget.locked <=> PastLockThreshold(account.user_type, budget)
            /\ (account.user_type = "REBEL" /\ ~budget.locked)
               => budget.amount_spent <= budget.total_amount
            /\ last.before.budgets[c].locked
               => budget.amount_spent = last.before.budgets[c].amount_spent

\* C24 witness: a Troublemaker call against a locked budget, whose ratio is
\* above 1.2.
C24_Witness ==
    /\ last.called
    /\ account.user_type = "TROUBLEMAKER"
    /\ BudgetBefore.locked
    /\ RatioGT(exceeded_ratio(BudgetAfter), 6, 5)
    /\ last.result = "BudgetLocked"

\* C25: on a Rebel account at most two budgets are locked, the account is
\* locked exactly when two are, and no call on a locked account locks
\* another budget.
C25_StrictTwoLocks ==
    account.user_type = "REBEL"
    => /\ no_locked_budgets(account.budgets) <= 2
       /\ account.locked <=> no_locked_budgets(account.budgets) = 2
       /\ account.locked
          => \A t \in Transactions :
                record_transaction(account, t).acct.budgets = account.budgets

\* C25 witness: on a locked Rebel account with two locked budgets, a call
\* within the balance against an unlocked budget was rejected.
C25_Witness ==
    /\ last.called
    /\ account.user_type = "REBEL"
    /\ account.locked
    /\ last.before.locked
    /\ no_locked_budgets(account.budgets) = 2
    /\ ~BudgetBefore.locked
    /\ last.transaction.amount <= last.before.bank_balance
    /\ last.result = "AccountLocked"

\* C26: the balance is never negative, before or after any call.
C26_BalanceNonNegative ==
    /\ account.bank_balance >= 0
    /\ last.before.bank_balance >= 0

\* C26 witness: an accepted call took the whole balance, and a call after it
\* was rejected.
C26_Witness ==
    /\ last.called
    /\ last.result = "InsufficientFunds"
    /\ account.bank_balance = 0
    /\ Len(account.transactions) >= 1

\* C27: a call within the balance, on an unlocked account, against an
\* unlocked budget is accepted whatever the budget's total and amount spent
\* are, and credits the whole amount to the budget.
C27_AllocationNoLimit ==
    (/\ last.called
     /\ ~last.before.locked
     /\ last.transaction.amount <= last.before.bank_balance
     /\ ~BudgetBefore.locked)
    => /\ last.accepted
       /\ BudgetAfter.amount_spent
             = BudgetBefore.amount_spent + last.transaction.amount

\* C27 witness: a call was accepted against a budget that had already spent
\* more than its total.
C27_Witness ==
    /\ last.called
    /\ last.accepted
    /\ BudgetBefore.amount_spent > BudgetBefore.total_amount

\* C30: an accepted call leaves every budget other than its own as it was.
C30_OtherBudgetsUntouched ==
    (last.called /\ last.accepted)
    => \A d \in BudgetCategory \ {last.transaction.budget_category} :
          /\ account.budgets[d].amount_spent
                = last.before.budgets[d].amount_spent
          /\ account.budgets[d].locked = last.before.budgets[d].locked
          /\ account.budgets[d] = last.before.budgets[d]

\* C30 witness: the Rebel call that locked the account, with an unlocked
\* budget left.
C30_Witness ==
    /\ last.called
    /\ last.accepted
    /\ \E i \in 1..Len(last.actions) : last.actions[i] = LockAccount
    /\ \E d \in BudgetCategory : ~account.budgets[d].locked

\* ---- C21 ----
\* The entries of one thread in a list, in the order of the list.
EntriesOf(data, w) == SelectSeq(data, LAMBDA times : times[1] = w)

\* The cities whose entry the thread has stored in the list.
Appended(w) ==
    IF lab11.workers[w].pc = "release"
    THEN lab11.workers[w].city
    ELSE lab11.workers[w].city - 1

AllJoined == lab11.main.pc \in {"print", "done"}

EveryPair ==
    /\ Len(lab11.data) = Len(Workers) * NumCities
    /\ {lab11.data[i] : i \in 1..Len(lab11.data)}
          = {CityOverheadTimes(w, c) : w \in WorkerNames, c \in Cities}

C28_ReachesRejectingState ==
    <>[](\A t \in Transactions : ~record_transaction(account, t).accepted)

\* C28, amended: with amounts that are positive integers and the opening
\* balance MaxAmount, the history never holds more than MaxAmount
\* transactions, and along every infinite sequence of submissions there is a
\* point after which every submission made is rejected: the account, its
\* history included, changes no more.
C28_AcceptedAtMostBalance ==
    /\ [](Len(account.transactions) <= MaxAmount)
    /\ <>[][/\ account' = account
            /\ ~last'.accepted]_vars

\* As many transactions as the opening balance were accepted, and the next
\* submission was rejected.
C28_Witness ==
    /\ Len(account.transactions) = MaxAmount
    /\ account.bank_balance = 0
    /\ last.called
    /\ ~last.accepted
    /\ last.result = "InsufficientFunds"

\* ---- C29 ----
\* The budgets an account has locked.
LockedBudgets(acct) == {c \in BudgetCategory : acct.budgets[c].locked}

\* Every lock the second account holds, the first holds too.
LocksWithin(lab3_acct, acct) ==
    /\ LockedBudgets(lab3_acct) \subseteq LockedBudgets(acct)
    /\ lab3_acct.locked => acct.locked

\* C29 as stated, its second part: at any time, every budget lock and the
\* account lock that lab-3 has taken, assignment-1 has taken too.
C29_Lab3LocksTakenByAssignment1 == LocksWithin(lab3.acct, account)

\* C29, amended: while assignment-1 has locked no budget the two accounts
\* are equal, locks included; a call that assignment-1 received with no
\* budget locked found the two accounts equal, returned the same acceptance
\* in both programs, left the same balance, amounts spent and history, and
\* every lock lab-3 took in it assignment-1 took in it too.
C29_SameUntilFirstLock ==
    /\ LockedBudgets(account) = {} => lab3.acct = account
    /\ (last.called /\ LockedBudgets(last.before) = {})
       => /\ lab3.before = last.before
          /\ lab3.called
          /\ lab3.accepted = last.accepted
          /\ lab3.acct.bank_balance = account.bank_balance
          /\ lab3.acct.transactions = account.transactions
          /\ \A c \in BudgetCategory :
                lab3.acct.budgets[c].amount_spent
                   = account.budgets[c].amount_spent
          /\ LocksWithin(lab3.acct, account)

\* A call that found nothing locked made both programs lock its budget, after
\* an earlier accepted call that locked nothing.
C29_Witness ==
    /\ last.called
    /\ last.accepted
    /\ LockedBudgets(last.before) = {}
    /\ Len(last.before.transactions) > 0
    /\ lab3.acct.budgets[last.transaction.budget_category].locked
    /\ account.budgets[last.transaction.budget_category].locked

====
